---- MODULE Spec2Model ----
(***************************************************************************)
(* Dependency map and deletion order of awscleanup                         *)
(* (src/src/awscleanup/core/discovery.py, core/models.py).                 *)
(*                                                                         *)
(* A catalog is the list of AWSResource records one discovery pass         *)
(* produced.  _build_dependency_map derives every record's dependents      *)
(* from the dependencies of the whole catalog; get_deletion_order peels a  *)
(* selection round by round.  Identifiers are only ever compared for       *)
(* equality, so they are modelled as naturals; 0 is an identifier that no  *)
(* record of any catalog carries (an external or already deleted           *)
(* resource).                                                              *)
(*                                                                         *)
(* Around the two methods stand the discovery passes that fill the         *)
(* session (discover_all_resources) and the deletion batch that consumes   *)
(* the order (core/application.py _delete_resources, ui/retro_ui.py        *)
(* show_deletion_progress); around those, the main menu with its           *)
(* selection toggles and dry runs (core/models.py CleanupSession) and the  *)
(* choice of the profile and account a session is opened for               *)
(* (core/profile_manager.py).  The loop of the legacy script               *)
(* (aws_cleanup.py delete_resources) is kept as an operator of its own.    *)
(***************************************************************************)
EXTENDS Naturals, Integers, Sequences, FiniteSets, TLC

\* ------------------------------------------------------------------ bounds
\* records of one catalog
MaxRes == 3
\* dependency ids declared in one catalog, all records together
MaxEdges == 2
\* calls of _build_dependency_map on one catalog
MaxBuilds == 2

\* ------------------------------------------------------------ the records
\* services that report resources, in discovery order
Services == <<"ec2", "s3">>

\* the resource type each service of the model reports
ResourceTypeOf(service) == IF service = "ec2" THEN "instance" ELSE "bucket"

\* AWSResource as a service constructs it: dependents starts empty; name,
\* region, metadata and state are the payload the ordering never reads
\* (the name is taken from the identifier, metadata and state keep the
\* dataclass defaults)
AWSResource(service, identifier, dependencies) ==
    [service |-> service,
     resource_type |-> ResourceTypeOf(service),
     identifier |-> identifier,
     name |-> identifier,
     region |-> "us-east-1",
     dependencies |-> dependencies,
     dependents |-> <<>>,
     metadata |-> <<>>,
     state |-> "unknown"]

\* the profiles of ~/.aws and the accounts their credentials can belong to
Profiles == {"default", "dev", "prod"}

Accounts == <<"111111111111", "222222222222", "333333333333">>

\* AWSAccountInfo as get_account_info returns it for a profile
AWSAccountInfo(account_id, profile) ==
    [account_id |-> account_id, profile |-> profile]

\* AWSResource.full_identifier
full_identifier(r) == <<r.service, r.resource_type, r.identifier>>

\* -------------------------------------------------------------- sequences
Range(s) == {s[i] : i \in DOMAIN s}

\* position of the first element equal to x, 0 when there is none
RECURSIVE IndexFrom(_, _, _)
IndexFrom(s, x, i) ==
    IF i > Len(s) THEN 0
    ELSE IF s[i] = x THEN i
    ELSE IndexFrom(s, x, i + 1)

IndexOf(s, x) == IndexFrom(s, x, 1)

\* list.remove(x): drops the first element equal to x
ListRemove(s, x) ==
    LET k == IndexOf(s, x)
    IN  [i \in 1..(Len(s) - 1) |-> IF i < k THEN s[i] ELSE s[i + 1]]

VARIABLES
    profile_accounts,   \* the account the credentials of each profile belong to
    protected_accounts, \* AWSProfileManager.protected_accounts
    session,            \* the account_info of the CleanupSession the
                        \* application holds: <<>> while it holds none
    verified,           \* the accounts verify_account_safety has passed
    app_pc,             \* "start" before run() has initialized a session,
                        \* "menu" in the main loop, "exited" after sys.exit
    account,            \* the resources of the AWS account, as the services
                        \* report them
    stale,              \* the last discovery pass left the session with the
                        \* catalog of an earlier pass
    selected_ids,       \* session.selected_resources: the identifiers the
                        \* operator has toggled on
    last_pass,          \* whether discover_all_resources has returned after
                        \* the first pass, and the list its last call returned
    resources,          \* the catalog: session.resources, a list of records
    builds,             \* calls of _build_dependency_map on this catalog
    once,               \* the catalog as the first call left it
    pc,                 \* get_deletion_order: "idle", "loop", "returned", "raised"
    selected_resources, \* its argument, the caller's list
    deletion_order,     \* its local deletion_order
    remaining,          \* its local remaining
    remaining_ids,      \* its local remaining_ids
    warnings,           \* warnings it printed in this call
    forced,             \* records its forced rounds placed in this call
    last_round,         \* the last iteration of its loop: what it found at
                        \* its head and what it placed
    objects,            \* the list objects its locals name and the one it
                        \* returned
    entry,              \* the caller's list as it was when the call began
    earlier,            \* the argument and result of an earlier call that
                        \* the caller has kept
    batch_pc,           \* _delete_resources: "menu", "ordering", "progress",
                        \* "done", "exited"
    order_calls,        \* calls of get_deletion_order the batch has made
    attempts,           \* the records the callback was called for, in order
    outcomes,           \* what each returned call of the callback gave
    screen              \* what show_deletion_progress has on the terminal

vars == <<profile_accounts, protected_accounts, session, verified, app_pc,
          account, stale, last_pass, selected_ids, resources, builds, once,
          pc, selected_resources, deletion_order, remaining, remaining_ids,
          warnings, forced, last_round, objects, entry, earlier, batch_pc,
          order_calls, attempts, outcomes, screen>>

orderVars == <<pc, selected_resources, deletion_order, remaining,
               remaining_ids, warnings, forced, last_round, objects,
               entry>>

batchVars == <<batch_pc, order_calls, attempts, outcomes, screen>>

passVars == <<account, stale, last_pass>>

profileVars == <<profile_accounts, protected_accounts, session, verified,
                 app_pc>>

\* ------------------------------------------------- _build_dependency_map
\* resource_map = {r.identifier: r for r in resources}: a later record
\* with the same identifier replaces the earlier one; the value is the
\* position of the record in the list
ResourceMap(rs) ==
    [id \in {rs[i].identifier : i \in DOMAIN rs} |->
        CHOOSE i \in DOMAIN rs :
            /\ rs[i].identifier = id
            /\ \A j \in DOMAIN rs : rs[j].identifier = id => j <= i]

\* mutant: the dependents of the previous call are kept
M_KeepDependents(rs) == rs

\* mutant: clearing a record also resets its state
M_ClearResetsState(rs) ==
    [i \in DOMAIN rs |->
        [rs[i] EXCEPT !.dependents = <<>>, !.state = "available"]]
\* for resource in resources: resource.dependents.clear()
ClearDependents(rs) ==
    [i \in DOMAIN rs |-> [rs[i] EXCEPT !.dependents = <<>>]]

\* mutant: an id that names no record is booked on the declaring record
\* itself instead of being skipped
RECURSIVE M_AddDependentsStray(_, _, _, _)
M_AddDependentsStray(rs, resource_map, identifier, deps) ==
    IF deps = <<>> THEN rs
    ELSE LET dep_id == Head(deps)
             target == IF dep_id \in DOMAIN resource_map
                       THEN resource_map[dep_id]
                       ELSE resource_map[identifier]
             next == [rs EXCEPT ![target].dependents = Append(@, identifier)]
         IN  M_AddDependentsStray(next, resource_map, identifier, Tail(deps))

\* for dep_id in resource.dependencies:
\*     if dep_id in resource_map: resource_map[dep_id].dependents.append(...)
RECURSIVE AddDependents(_, _, _, _)
AddDependents(rs, resource_map, identifier, deps) ==
    IF deps = <<>> THEN rs
    ELSE LET dep_id == Head(deps)
             next == IF dep_id \in DOMAIN resource_map
                     THEN [rs EXCEPT ![resource_map[dep_id]].dependents =
                                         Append(@, identifier)]
                     ELSE rs
         IN  AddDependents(next, resource_map, identifier, Tail(deps))

\* for resource in resources: (the inner loop above)
RECURSIVE BuildLoop(_, _, _)
BuildLoop(rs, resource_map, i) ==
    IF i > Len(rs) THEN rs
    ELSE BuildLoop(AddDependents(rs, resource_map, rs[i].identifier,
                                 rs[i].dependencies),
                   resource_map, i + 1)

\* the whole of _build_dependency_map, as the list it leaves behind
BuildDependencyMap(rs) ==
    BuildLoop(ClearDependents(rs), ResourceMap(rs), 1)

\* ---------------------------------------------------- get_deletion_order
\* the list object the caller passes as selected_resources
InputList == "selected_resources"

\* mutant: remaining names the caller's list itself
M_NoCopy(list) == list

\* selected_resources.copy(): a new list object, the one remaining names
ListCopy(list) == "remaining"

\* []: a new list object, the one deletion_order names
NewList == "deletion_order"

\* no list object
None == "None"

\* mutant: one record is returned for a selected identifier, the first of
\* the catalog that carries it
M_SelectedOnePerIdentifier(rs, selected) ==
    SelectSeq(rs, LAMBDA r :
        /\ r.identifier \in selected
        /\ \A j \in DOMAIN rs :
              rs[j].identifier = r.identifier => IndexOf(rs, r) <= j)

\* CleanupSession.get_selected_resources
get_selected_resources(rs, selected) ==
    SelectSeq(rs, LAMBDA r : r.identifier \in selected)

\* CleanupSession.toggle_resource_selection, as the set it leaves behind
toggle_resource_selection(selected, resource_id) ==
    IF resource_id \in selected THEN selected \ {resource_id}
    ELSE selected \cup {resource_id}

\* mutant: the wrong direction of the relation is tested
M_HasDependenciesInRemaining(resource, ids) ==
    \E k \in DOMAIN resource.dependencies : resource.dependencies[k] \in ids

\* mutant: any dependent blocks, selected or not
M_HasAnyDependents(resource, ids) == resource.dependents # <<>>

\* any(dep_id in remaining_ids for dep_id in resource.dependents)
HasDependentsInRemaining(resource, ids) ==
    \E k \in DOMAIN resource.dependents : resource.dependents[k] \in ids

\* mutant: the eligible records are sorted by identifier; the numbers
\* that stand for identifiers say nothing about the order of the strings,
\* the sort takes the order that reverses the numbering
M_EligibleSortedById(rem, ids) ==
    SortSeq(SelectSeq(rem, LAMBDA r : ~HasDependentsInRemaining(r, ids)),
            LAMBDA a, b : a.identifier > b.identifier)

\* the records of remaining with no dependent in remaining_ids, in order
Eligible(rem, ids) ==
    SelectSeq(rem, LAMBDA r : ~HasDependentsInRemaining(r, ids))

\* mutant: the branch for a round without eligible record is missing
M_PickNoForce(rem, ids) ==
    [can_delete |-> Eligible(rem, ids), warned |-> FALSE]

\* mutant: the forced pick takes the last record of remaining
M_PickForcesLast(rem, ids) ==
    IF Eligible(rem, ids) = <<>>
    THEN [can_delete |-> <<rem[Len(rem)]>>, warned |-> TRUE]
    ELSE [can_delete |-> Eligible(rem, ids), warned |-> FALSE]

\* can_delete of one round, and whether the round printed the warning:
\* if not can_delete: can_delete = [remaining[0]]; print("... Warning ...")
Pick(rem, ids) ==
    IF Eligible(rem, ids) = <<>>
    THEN [can_delete |-> <<rem[1]>>, warned |-> TRUE]
    ELSE [can_delete |-> Eligible(rem, ids), warned |-> FALSE]

\* the identifiers the printed warning names: the line is the literal
\* "Warning: Potential circular dependency detected", it interpolates
\* nothing of remaining
WarningNames(rem) == {}

\* for resource in can_delete:
\*     remaining.remove(resource); remaining_ids.remove(resource.identifier)
\* set.remove raises KeyError when the identifier is not in the set
RECURSIVE RemoveLoop(_, _, _)
RemoveLoop(can_delete, rem, ids) ==
    IF can_delete = <<>> THEN [remaining |-> rem, remaining_ids |-> ids,
                               raised |-> FALSE]
    ELSE LET resource == Head(can_delete)
             rem2 == ListRemove(rem, resource)
         IN  IF resource.identifier \notin ids
             THEN [remaining |-> rem2, remaining_ids |-> ids,
                   raised |-> TRUE]
             ELSE RemoveLoop(Tail(can_delete), rem2,
                             ids \ {resource.identifier})

\* ----------------------------------- aws_cleanup.py delete_resources
\* the legacy loop tests a dependents id against the identifiers of the
\* records in remaining, a list it rebuilds for every test:
\*     dep_id in [r.identifier for r in remaining]
LegacyEligible(rem) ==
    SelectSeq(rem, LAMBDA r :
        ~\E k \in DOMAIN r.dependents :
            \E i \in DOMAIN rem : rem[i].identifier = r.dependents[k])

\* mutant: the legacy loop forces the last record of remaining
M_LegacyPickForcesLast(rem) ==
    IF LegacyEligible(rem) = <<>> THEN <<rem[Len(rem)]>>
    ELSE LegacyEligible(rem)

\* if not can_delete: can_delete = [remaining[0]]   (no warning is printed)
LegacyPick(rem) ==
    IF LegacyEligible(rem) = <<>> THEN <<rem[1]>>
    ELSE LegacyEligible(rem)

\* for resource in can_delete: remaining.remove(resource)
RECURSIVE LegacyRemoveLoop(_, _)
LegacyRemoveLoop(can_delete, rem) ==
    IF can_delete = <<>> THEN rem
    ELSE LegacyRemoveLoop(Tail(can_delete), ListRemove(rem, Head(can_delete)))

\* while remaining: ... deletion_order.extend(can_delete)
RECURSIVE LegacyLoop(_, _)
LegacyLoop(rem, order) ==
    IF rem = <<>> THEN order
    ELSE LET can_delete == LegacyPick(rem)
         IN  LegacyLoop(LegacyRemoveLoop(can_delete, rem),
                        order \o can_delete)

\* the deletion_order the legacy delete_resources prints and walks
LegacyDeletionOrder(selected) == LegacyLoop(selected, <<>>)
\* ------------------------------------------------------------ the catalogs
\* the dependencies record i declares: the targets of its edges, in order
DependenciesOf(edges, i) ==
    LET mine == SelectSeq(edges, LAMBDA e : e[1] = i)
    IN  [k \in DOMAIN mine |-> mine[k][2]]

\* the records before position i that carry the same identifier
EarlierSame(ids, i) == {j \in 1..(i - 1) : ids[j] = ids[i]}

\* identifiers are numbered in the order of their first appearance
FirstAppearance(ids) ==
    \A i \in DOMAIN ids :
        \/ ids[i] = 1
        \/ \E j \in 1..(i - 1) : ids[i] <= ids[j] + 1

\* A catalog as the services hand it over.  Catalogs are enumerated up to
\* renaming of identifiers (FirstAppearance); records that share a bare
\* identifier are reported by different services, so that all full
\* identifiers of a catalog are distinct; a dependency names the
\* identifier of a record or 0, an identifier no record carries.
Catalog(ids, edges) ==
    [i \in DOMAIN ids |->
        AWSResource(Services[Cardinality(EarlierSame(ids, i)) + 1],
                    ids[i], DependenciesOf(edges, i))]

\* no iteration has run in this call
NoRound == [n |-> 0, remaining |-> <<>>, remaining_ids |-> {},
            warnings |-> 0, can_delete |-> <<>>, warned |-> FALSE,
            named |-> {}]

\* no call has bound its locals
NoObjects == [remaining |-> None, deletion_order |-> None, returned |-> None]

\* the terminal after clear_screen
NoScreen == [progress |-> <<0, 0>>, deleting |-> <<>>, result |-> "",
             complete |-> FALSE]

\* no call result kept
NoCall == [kept |-> FALSE, input |-> <<>>, output |-> <<>>]

\* the argument and the returned list of a finished call
Kept(input, output) == [kept |-> TRUE, input |-> input, output |-> output]

TypeOK ==
    /\ builds \in 0..MaxBuilds
    /\ pc \in {"idle", "loop", "returned", "raised"}
    /\ Len(resources) <= MaxRes
    /\ warnings \in 0..MaxRes
    /\ forced \subseteq Range(entry)
    /\ last_round.n \in 0..MaxRes
    /\ stale \in BOOLEAN
    /\ app_pc \in {"start", "menu", "exited"}
    /\ Len(session) <= 1
    /\ protected_accounts \subseteq Range(Accounts)
    /\ verified \subseteq Range(Accounts)
    /\ last_pass.returned \in BOOLEAN
    /\ selected_ids \subseteq 0..MaxRes
    /\ batch_pc \in {"menu", "ordering", "progress", "done", "exited",
                    "dry_run", "cancelled"}
    /\ order_calls \in {0, 1}
    /\ Len(outcomes) <= Len(attempts)
    /\ objects.returned \in {None, NewList}

\* the first discovery pass has collected the records of the account from
\* every service (all_resources, before line 82); no call of
\* get_deletion_order and no deletion batch has begun
InitCatalog ==
    /\ \E n \in 0..MaxRes :
       \E ids \in [1..n -> 1..n] :
       \E k \in 0..MaxEdges :
       \E edges \in [1..k -> (1..n) \X (0..n)] :
          /\ FirstAppearance(ids)
          /\ \A i \in 1..n : Cardinality(EarlierSame(ids, i)) < Len(Services)
          /\ \A e \in 1..k : edges[e][2] \in {0} \cup {ids[i] : i \in 1..n}
          /\ account = Catalog(ids, edges)
    /\ resources = account
    /\ stale = FALSE
    /\ last_pass = [returned |-> FALSE, all_resources |-> <<>>]
    /\ selected_ids = {}
    /\ builds = 0
    /\ once = <<>>
    /\ pc = "idle"
    /\ selected_resources = <<>>
    /\ deletion_order = <<>>
    /\ remaining = <<>>
    /\ remaining_ids = {}
    /\ warnings = 0
    /\ forced = {}
    /\ last_round = NoRound
    /\ objects = NoObjects
    /\ entry = <<>>
    /\ earlier = NoCall
    /\ batch_pc = "menu"
    /\ order_calls = 0
    /\ attempts = <<>>
    /\ outcomes = <<>>
    /\ screen = NoScreen

\* ... in the session run() has initialized for the default profile, whose
\* account is not protected
Init ==
    /\ InitCatalog
    /\ profile_accounts = [p \in Profiles |-> Head(Accounts)]
    /\ protected_accounts = {}
    /\ session = <<AWSAccountInfo(Head(Accounts), "default")>>
    /\ verified = {Head(Accounts)}
    /\ app_pc = "menu"

\* discover_all_resources, line 82, builds the map once for the catalog
\* it collected; further calls on the same catalog repeat the method
\* before any record is selected
Build ==
    /\ pc = "idle"
    /\ builds < MaxBuilds
    /\ resources' = BuildDependencyMap(resources)
    /\ builds' = builds + 1
    /\ once' = IF builds = 0 THEN BuildDependencyMap(resources) ELSE once
    /\ UNCHANGED <<profileVars, orderVars, earlier, batchVars, passVars,
                   selected_ids>>

\* mutant: deletion_order lives on across calls instead of starting empty
M_StartOrderKeepsOrder(keep) ==
    /\ pc # "loop"
    /\ builds = 1
    /\ keep => (pc = "returned" /\ ~earlier.kept)
    /\ \E selected \in SUBSET {resources[i].identifier : i \in DOMAIN resources} :
          LET input == get_selected_resources(resources, selected)
          IN  /\ selected_resources' = input
              /\ entry' = input
              /\ remaining' = input
              /\ remaining_ids' = {input[i].identifier : i \in DOMAIN input}
              /\ selected_ids' = selected
    /\ deletion_order' = deletion_order
    /\ warnings' = 0
    /\ forced' = {}
    /\ last_round' = NoRound
    /\ objects' = [remaining |-> ListCopy(InputList),
                   deletion_order |-> NewList,
                   returned |-> None]
    /\ pc' = "loop"
    /\ earlier' = IF keep THEN Kept(selected_resources, deletion_order)
                  ELSE earlier
    /\ UNCHANGED <<profileVars, passVars, resources, builds, once, batchVars>>

\* get_deletion_order is entered with the records the session has selected
\* from the catalog of the last discovery pass, whose map was built once
\* (application.py calls it for the dry run and again for the deletion);
\* the empty selection is a possible argument of the method;
\* keep: the caller still holds the list the previous call returned
StartOrder(keep) ==
    /\ pc # "loop"
    /\ builds = 1
    /\ keep => (pc = "returned" /\ ~earlier.kept)
    /\ \E selected \in SUBSET {resources[i].identifier : i \in DOMAIN resources} :
          LET input == get_selected_resources(resources, selected)
          IN  /\ selected_resources' = input
              /\ entry' = input
              /\ remaining' = input
              /\ remaining_ids' = {input[i].identifier : i \in DOMAIN input}
              /\ selected_ids' = selected
    /\ deletion_order' = <<>>
    /\ warnings' = 0
    /\ forced' = {}
    /\ last_round' = NoRound
    /\ objects' = [remaining |-> ListCopy(InputList),
                   deletion_order |-> NewList,
                   returned |-> None]
    /\ pc' = "loop"
    /\ earlier' = IF keep THEN Kept(selected_resources, deletion_order)
                  ELSE earlier
    /\ UNCHANGED <<profileVars, passVars, resources, builds, once, batchVars>>

\* one iteration of the while loop
Round ==
    /\ pc = "loop"
    /\ remaining # <<>>
    /\ LET pick == Pick(remaining, remaining_ids)
           can_delete == pick.can_delete
           after == RemoveLoop(can_delete, remaining, remaining_ids)
       IN  /\ warnings' = IF pick.warned THEN warnings + 1 ELSE warnings
           /\ forced' = IF pick.warned THEN forced \cup Range(can_delete)
                                        ELSE forced
           \* rounds are counted up to MaxRes + 1, more than any call runs
           /\ last_round' = [n |-> IF last_round.n <= MaxRes
                                    THEN last_round.n + 1
                                    ELSE last_round.n,
                              remaining |-> remaining,
                              remaining_ids |-> remaining_ids,
                              warnings |-> warnings,
                              can_delete |-> can_delete,
                              warned |-> pick.warned,
                              named |-> IF pick.warned
                                        THEN WarningNames(remaining)
                                        ELSE {}]
           /\ deletion_order' = deletion_order \o can_delete
           /\ remaining' = after.remaining
           /\ remaining_ids' = after.remaining_ids
           \* remaining.remove acts on the list object remaining names
           /\ selected_resources' = IF objects.remaining = InputList
                                     THEN after.remaining
                                     ELSE selected_resources
           /\ pc' = IF after.raised THEN "raised" ELSE "loop"
    /\ UNCHANGED <<profileVars, passVars, selected_ids, resources, builds,
                   once, objects, entry, earlier, batchVars>>

\* the loop condition fails: return deletion_order
Return ==
    /\ pc = "loop"
    /\ remaining = <<>>
    /\ pc' = "returned"
    /\ objects' = [objects EXCEPT !.returned = objects.deletion_order]
    /\ UNCHANGED <<profileVars, passVars, selected_ids, resources, builds,
                   once, selected_resources, deletion_order, remaining,
                   remaining_ids, warnings, forced, last_round, entry,
                   earlier, batchVars>>

Next == Build \/ StartOrder(FALSE) \/ Round \/ Return

Spec == Init /\ [][Next]_vars

\* _build_dependency_map alone, applied to every catalog
SpecMap == Init /\ [][Build]_vars

\* the catalogs with fewer than MaxRes records; the two specifications
\* below explore these, their checks being the costlier ones
InitShort == Init /\ Len(resources) < MaxRes

\* the loop is sequential code: once entered it runs to its end
FairSpec == InitShort /\ [][Next]_vars /\ WF_vars(Round) /\ WF_vars(Return)

\* the same program, with a caller that may keep one returned list
NextKeep == Build \/ (\E keep \in BOOLEAN : StartOrder(keep)) \/ Round \/ Return

SpecKeep == InitShort /\ [][NextKeep]_vars

\* ------------------------------------------------ the discovery passes
\* discover_all_resources(session) after the first pass, with the services
\* in enabled switched on, those in raising failing with an exception the
\* loop catches: without any enabled service it returns [] and leaves the
\* session as it is; otherwise the enabled services that do not raise
\* report their records anew, the map is built for them, the session gets
\* the new list and the call returns it
Discover(enabled, raising) ==
    /\ builds >= 1
    /\ pc # "loop"
    /\ batch_pc \in {"menu", "done", "cancelled"}
    /\ IF enabled = {}
       THEN /\ stale' = TRUE
            /\ last_pass' = [returned |-> TRUE, all_resources |-> <<>>]
            /\ UNCHANGED <<resources, builds, once>>
       ELSE LET all_resources ==
                    SelectSeq(account,
                              LAMBDA r : r.service \in enabled \ raising)
            IN  /\ resources' = BuildDependencyMap(all_resources)
                /\ once' = BuildDependencyMap(all_resources)
                /\ builds' = 1
                /\ stale' = FALSE
                /\ last_pass' =
                       [returned |-> TRUE,
                        all_resources |-> BuildDependencyMap(all_resources)]
    /\ UNCHANGED <<profileVars, account, selected_ids, orderVars, earlier,
                   batchVars>>

NextPasses ==
    \/ Build
    \/ \E enabled \in SUBSET Range(Services) :
          \E raising \in SUBSET enabled : Discover(enabled, raising)

\* discovery passes alone, on the accounts with the shorter catalogs
SpecPasses == InitShort /\ [][NextPasses]_vars

\* ------------------------------------------------- the deletion batch
\* what service.delete_resource can do for one record
ServiceResults == {"True", "False", "Exception"}

\* mutant: the callback lets the exception of the service through
M_CallbackPropagates(result) ==
    IF result = "Exception" THEN "raised" ELSE result

\* delete_callback: try: return service.delete_resource(resource)
\*                  except Exception: return False
delete_callback(result) ==
    IF result = "Exception" THEN "False" ELSE result

\* mutant: the next delete is started while one is still running
M_StartsAnyTime(called, returned) == TRUE

\* success = callback(resource) is a plain call: the loop goes on to the
\* next record when the callback has returned for every record before
CallbackReturned(called, returned) == Len(called) = Len(returned)

\* _delete_resources up to its call of get_deletion_order: the selection
\* is not empty, the operator has confirmed, the order is asked for
DeleteResources ==
    /\ batch_pc \in {"menu", "done"}
    /\ pc # "loop"
    /\ builds = 1
    /\ \E selected \in SUBSET {resources[i].identifier : i \in DOMAIN resources} :
          LET input == get_selected_resources(resources, selected)
          IN  /\ input # <<>>
              /\ selected_resources' = input
              /\ entry' = input
              /\ remaining' = input
              /\ remaining_ids' = {input[i].identifier : i \in DOMAIN input}
              /\ selected_ids' = selected
    /\ deletion_order' = <<>>
    /\ warnings' = 0
    /\ forced' = {}
    /\ last_round' = NoRound
    /\ objects' = [remaining |-> ListCopy(InputList),
                   deletion_order |-> NewList,
                   returned |-> None]
    /\ pc' = "loop"
    /\ batch_pc' = "ordering"
    /\ order_calls' = 1
    /\ attempts' = <<>>
    /\ outcomes' = <<>>
    /\ UNCHANGED <<profileVars, passVars, resources, builds, once, earlier,
                   screen>>

\* get_deletion_order has returned: show_deletion_progress is entered
\* with the returned list and clears the terminal
ShowDeletionProgress ==
    /\ batch_pc = "ordering"
    /\ pc = "returned"
    /\ batch_pc' = "progress"
    /\ screen' = [NoScreen EXCEPT !.progress = <<0, Len(deletion_order)>>]
    /\ UNCHANGED <<profileVars, passVars, selected_ids, resources, builds,
                   once, orderVars, earlier, order_calls, attempts, outcomes>>

\* get_deletion_order has raised, in _delete_resources or in
\* _perform_dry_run: nothing catches the error before run(),
\* which reports a fatal error and ends the application
Fatal ==
    /\ batch_pc \in {"ordering", "dry_run"}
    /\ pc = "raised"
    /\ batch_pc' = "exited"
    /\ UNCHANGED <<profileVars, passVars, selected_ids, resources, builds,
                   once, orderVars, earlier, order_calls, attempts, outcomes,
                   screen>>

\* the loop body of show_deletion_progress up to the call of the callback
DeleteCall ==
    /\ batch_pc = "progress"
    /\ CallbackReturned(attempts, outcomes)
    /\ Len(attempts) < Len(deletion_order)
    /\ LET i == Len(attempts) + 1
           resource == deletion_order[i]
       IN  /\ attempts' = Append(attempts, resource)
           /\ screen' = [screen EXCEPT
                            !.progress = <<i, Len(deletion_order)>>,
                            !.deleting = full_identifier(resource)]
    /\ UNCHANGED <<profileVars, passVars, selected_ids, resources, builds,
                   once, orderVars, earlier, batch_pc, order_calls, outcomes>>

\* the callback comes back and the result line is printed; an exception
\* leaving the callback would leave show_deletion_progress as well
DeleteReturn ==
    /\ batch_pc = "progress"
    /\ Len(outcomes) < Len(attempts)
    /\ \E result \in ServiceResults :
          LET success == delete_callback(result)
          IN  /\ outcomes' = Append(outcomes, [result |-> result,
                                               success |-> success])
              /\ IF success = "raised"
                 THEN /\ batch_pc' = "exited"
                      /\ screen' = screen
                 ELSE /\ batch_pc' = batch_pc
                      /\ screen' = [screen EXCEPT !.result =
                                       IF success = "True"
                                       THEN "Successfully deleted"
                                       ELSE "Failed to delete"]
    /\ UNCHANGED <<profileVars, passVars, selected_ids, resources, builds,
                   once, orderVars, earlier, order_calls, attempts>>

\* mutant: the batch ends without clearing the selection of the session
M_CompleteKeepsSelection ==
    /\ batch_pc = "progress"
    /\ CallbackReturned(attempts, outcomes)
    /\ Len(attempts) = Len(deletion_order)
    /\ screen' = [screen EXCEPT !.complete = TRUE]
    /\ batch_pc' = "done"
    /\ UNCHANGED <<profileVars, passVars, selected_ids, resources, builds,
                   once, orderVars, earlier, order_calls, attempts, outcomes>>
\* the loop is exhausted: "Deletion complete!" is printed, a key is
\* awaited and _delete_resources clears the selection of the session
DeletionComplete ==
    /\ batch_pc = "progress"
    /\ CallbackReturned(attempts, outcomes)
    /\ Len(attempts) = Len(deletion_order)
    /\ screen' = [screen EXCEPT !.complete = TRUE]
    /\ batch_pc' = "done"
    /\ selected_ids' = {}
    /\ UNCHANGED <<profileVars, passVars, resources, builds, once, orderVars,
                   earlier, order_calls, attempts, outcomes>>

NextBatch ==
    \/ Build
    \/ DeleteResources
    \/ Round
    \/ Return
    \/ ShowDeletionProgress
    \/ Fatal
    \/ DeleteCall
    \/ DeleteReturn
    \/ DeletionComplete

\* the application with deletion batches, on the shorter catalogs
SpecBatch == InitShort /\ [][NextBatch]_vars

\* ------------------------------------------------ the session at work
\* the main menu is up: no handler is running and the locals of the last
\* one are gone
AtMenu == batch_pc = "menu" /\ pc = "idle"

\* _main_loop comes round after a handler has returned: show_main_menu
\* redraws the terminal, the locals of the handler and of its call of
\* get_deletion_order are gone
ShowMainMenu ==
    /\ \/ batch_pc \in {"done", "cancelled"}
       \/ batch_pc = "menu" /\ pc = "returned"
    /\ pc' = "idle"
    /\ selected_resources' = <<>>
    /\ deletion_order' = <<>>
    /\ remaining' = <<>>
    /\ remaining_ids' = {}
    /\ warnings' = 0
    /\ forced' = {}
    /\ last_round' = NoRound
    /\ objects' = NoObjects
    /\ entry' = <<>>
    /\ batch_pc' = "menu"
    /\ order_calls' = 0
    /\ attempts' = <<>>
    /\ outcomes' = <<>>
    /\ screen' = NoScreen
    /\ UNCHANGED <<profileVars, passVars, selected_ids, resources, builds,
                   once, earlier>>

\* get_deletion_order is entered with the list input: deletion_order = [],
\* remaining = selected_resources.copy(), remaining_ids = {...}
EnterOrder(input) ==
    /\ selected_resources' = input
    /\ entry' = input
    /\ remaining' = input
    /\ remaining_ids' = {input[i].identifier : i \in DOMAIN input}
    /\ deletion_order' = <<>>
    /\ warnings' = 0
    /\ forced' = {}
    /\ last_round' = NoRound
    /\ objects' = [remaining |-> ListCopy(InputList),
                   deletion_order |-> NewList,
                   returned |-> None]
    /\ pc' = "loop"

\* _select_resources: the operator picks the record at selected_index of
\* the catalog and its identifier is toggled
SelectResources(selected_index) ==
    /\ AtMenu
    /\ builds >= 1
    /\ selected_index \in DOMAIN resources
    /\ selected_ids' = toggle_resource_selection(
                           selected_ids, resources[selected_index].identifier)
    /\ UNCHANGED <<profileVars, passVars, resources, builds, once, orderVars,
                   earlier, batchVars>>

\* _clear_selections
ClearSelections ==
    /\ AtMenu
    /\ selected_ids # {}
    /\ selected_ids' = {}
    /\ UNCHANGED <<profileVars, passVars, resources, builds, once, orderVars,
                   earlier, batchVars>>

\* _perform_dry_run with a selection that is not empty, up to its call of
\* get_deletion_order
PerformDryRun ==
    /\ AtMenu
    /\ builds = 1
    /\ LET selected == get_selected_resources(resources, selected_ids)
       IN  /\ selected # <<>>
           /\ EnterOrder(selected)
    /\ batch_pc' = "dry_run"
    /\ UNCHANGED <<profileVars, passVars, selected_ids, resources, builds,
                   once, earlier, order_calls, attempts, outcomes, screen>>

\* get_deletion_order has returned to _perform_dry_run: the order is
\* printed, a key is awaited and the menu comes back
ShowDryRun ==
    /\ batch_pc = "dry_run"
    /\ pc = "returned"
    /\ batch_pc' = "menu"
    /\ UNCHANGED <<profileVars, passVars, selected_ids, resources, builds,
                   once, orderVars, earlier, order_calls, attempts, outcomes,
                   screen>>

\* _delete_resources with a selection that is not empty, up to its call
\* of get_deletion_order: without confirmation "Deletion cancelled." is
\* shown and the handler returns
ConfirmDeletion(confirmed) ==
    /\ AtMenu
    /\ builds = 1
    /\ LET selected == get_selected_resources(resources, selected_ids)
       IN  /\ selected # <<>>
           /\ IF confirmed
              THEN /\ EnterOrder(selected)
                   /\ batch_pc' = "ordering"
                   /\ order_calls' = 1
                   /\ attempts' = <<>>
                   /\ outcomes' = <<>>
              ELSE /\ batch_pc' = "cancelled"
                   /\ UNCHANGED <<orderVars, order_calls, attempts, outcomes>>
    /\ UNCHANGED <<profileVars, passVars, selected_ids, resources, builds,
                   once, earlier, screen>>

\* selecting, discovering and dry runs; the passes are those that replace
\* the catalog (a pass without enabled service leaves the session alone)
NextSession ==
    \/ Build
    \/ \E enabled \in (SUBSET Range(Services)) \ {{}} : Discover(enabled, {})
    \/ \E selected_index \in 1..MaxRes : SelectResources(selected_index)
    \/ ClearSelections
    \/ PerformDryRun
    \/ ShowDryRun
    \/ Round
    \/ Return
    \/ Fatal
    \/ ShowMainMenu

\* the accounts whose records declare fewer than MaxEdges dependencies
InitSparse ==
    /\ Init
    /\ Cardinality(UNION {{<<i, k>> : k \in DOMAIN resources[i].dependencies} :
                          i \in DOMAIN resources}) < MaxEdges

\* the session between discovery passes, on the sparser catalogs
SpecSession == InitSparse /\ [][NextSession]_vars

\* selecting, dry runs and deletion batches on the catalog of one pass
NextConfirm ==
    \/ Build
    \/ \E selected_index \in 1..MaxRes : SelectResources(selected_index)
    \/ PerformDryRun
    \/ ShowDryRun
    \/ \E confirmed \in BOOLEAN : ConfirmDeletion(confirmed)
    \/ Round
    \/ Return
    \/ ShowDeletionProgress
    \/ Fatal
    \/ DeleteCall
    \/ DeleteReturn
    \/ DeletionComplete
    \/ ShowMainMenu

SpecConfirm == InitShort /\ [][NextConfirm]_vars

\* ------------------------------------------------- profiles and accounts
\* mutant: the safety check lets every account through
M_VerifyLetsThrough(account_id, protected) == "True"

\* AWSProfileManager.verify_account_safety: raises AccountSecurityError for
\* an account of the protected list, returns True otherwise
verify_account_safety(account_id, protected) ==
    IF account_id \in protected THEN "AccountSecurityError" ELSE "True"

\* _initialize_session(profile); credentials: get_account_info finds
\* credentials for the profile (it raises ProfileError otherwise).  Either
\* error ends in sys.exit(1); a new CleanupSession starts without catalog
\* and without selection
InitializeSession(profile, credentials) ==
    LET account_info == AWSAccountInfo(profile_accounts[profile], profile)
    IN  IF credentials
           /\ verify_account_safety(account_info.account_id,
                                    protected_accounts) = "True"
        THEN /\ verified' = verified \cup {account_info.account_id}
             /\ session' = <<account_info>>
             /\ resources' = <<>>
             /\ selected_ids' = {}
             /\ app_pc' = "menu"
        ELSE /\ app_pc' = "exited"
             /\ UNCHANGED <<verified, session, resources, selected_ids>>

\* run(profile), or run() with the profile picked from the menu
Run(profile, credentials) ==
    /\ app_pc = "start"
    /\ InitializeSession(profile, credentials)
    /\ UNCHANGED <<profile_accounts, protected_accounts, passVars, builds,
                   once, orderVars, earlier, batchVars>>

\* _switch_profile: a profile other than the one in use is picked and the
\* session is initialized anew; sys.exit leaves through except Exception
SwitchProfile(new_profile, credentials) ==
    /\ app_pc = "menu"
    /\ AtMenu
    /\ new_profile # session[1].profile
    /\ InitializeSession(new_profile, credentials)
    /\ UNCHANGED <<profile_accounts, protected_accounts, passVars, builds,
                   once, orderVars, earlier, batchVars>>

NextProfiles ==
    \/ \E profile \in Profiles, credentials \in BOOLEAN :
          Run(profile, credentials)
    \/ \E new_profile \in Profiles, credentials \in BOOLEAN :
          SwitchProfile(new_profile, credentials)

\* the application is started with some safety configuration, some
\* assignment of accounts to the profiles and no session
InitProfiles ==
    /\ InitCatalog
    /\ account = <<>>
    /\ profile_accounts \in [Profiles -> Range(Accounts)]
    /\ protected_accounts \in SUBSET Range(Accounts)
    /\ session = <<>>
    /\ verified = {}
    /\ app_pc = "start"

SpecProfiles == InitProfiles /\ [][NextProfiles]_vars

\* ---------------------------------------------------------- vocabulary
\* no two records of the list carry the same identifier
UniqueIdentifiers(s) ==
    \A i, j \in DOMAIN s : s[i].identifier = s[j].identifier => i = j

\* no two records of the list have the same full identifier
UniqueFullIdentifiers(s) ==
    \A i, j \in DOMAIN s : full_identifier(s[i]) = full_identifier(s[j]) => i = j

\* record j of s is a dependent of record i of s
DependentIn(s, i, j) == s[j].identifier \in Range(s[i].dependents)

\* a chain of at most k dependent steps leads from record i to record j
RECURSIVE Reaches(_, _, _, _)
Reaches(s, i, j, k) ==
    /\ k > 0
    /\ \/ DependentIn(s, i, j)
       \/ \E m \in DOMAIN s : DependentIn(s, i, m) /\ Reaches(s, m, j, k - 1)

\* the dependents relation restricted to the list has no cycle
Acyclic(s) == \A i \in DOMAIN s : ~Reaches(s, i, i, Len(s))

\* t holds exactly the records of s, each as often as s does
IsPermutation(t, s) ==
    /\ Len(t) = Len(s)
    /\ \A x \in Range(s) \cup Range(t) :
          Cardinality({i \in DOMAIN s : s[i] = x}) =
          Cardinality({i \in DOMAIN t : t[i] = x})

\* the identifiers carried by the records of the list
Identifiers(s) == {s[i].identifier : i \in DOMAIN s}

\* the list with every dependency id that names none of its records dropped
WithoutDangling(s) ==
    [i \in DOMAIN s |->
        [s[i] EXCEPT !.dependencies =
            SelectSeq(@, LAMBDA d : d \in Identifiers(s))]]

\* the declarations (record, place in its dependencies) naming a record
InCatalogDeclarations(s) ==
    UNION {{<<i, k>> : k \in {l \in DOMAIN s[i].dependencies :
                                 s[i].dependencies[l] \in Identifiers(s)}} :
           i \in DOMAIN s}

\* the entries (record, place in its dependents) of all dependents lists
DependentsEntries(s) ==
    UNION {{<<i, k>> : k \in DOMAIN s[i].dependents} : i \in DOMAIN s}

\* the positions of s, in order
Positions(s) == [i \in DOMAIN s |-> i]

\* the counter Kahn's algorithm starts record i of s with: the entries of
\* its dependents that name a record of s
PendingDependents(s, i) ==
    Cardinality({k \in DOMAIN s[i].dependents :
                    s[i].dependents[k] \in Identifiers(s)})

\* the dependencies entries of the records at the positions in layer that
\* name record i of s
Released(s, layer, i) ==
    Cardinality(UNION {{<<e, k>> : k \in {l \in DOMAIN s[e].dependencies :
                                             s[e].dependencies[l] = s[i].identifier}} :
                       e \in layer})

\* Kahn's algorithm layer by layer: emit the pending records whose counter
\* is zero in the order of s, then lower the counters of the records they
\* depend on
RECURSIVE KahnLayers(_, _, _, _)
KahnLayers(s, counter, pending, out) ==
    LET zero == {i \in pending : counter[i] = 0}
        layer == SelectSeq(Positions(s), LAMBDA i : i \in zero)
    IN  IF zero = {} THEN out
        ELSE KahnLayers(s,
                        [i \in DOMAIN s |-> counter[i] - Released(s, zero, i)],
                        pending \ zero,
                        out \o [k \in DOMAIN layer |-> s[layer[k]]])

Kahn(s) ==
    KahnLayers(s, [i \in DOMAIN s |-> PendingDependents(s, i)], DOMAIN s, <<>>)
\* t holds records of s only, each at most once, in the order of s
InOrderOf(t, s) ==
    /\ Range(t) \subseteq Range(s)
    /\ \A i, j \in DOMAIN t :
          i < j => IndexOf(s, t[i]) < IndexOf(s, t[j])
\* --------------------------------------------------------------- claims

\* C1: when get_deletion_order returns for a selection with unique
\* identifiers whose dependents relation is acyclic, every selected
\* dependent of a selected resource stands at a strictly earlier index of
\* the result than that resource.
C1_DependentsFirst ==
    (pc = "returned" /\ UniqueIdentifiers(selected_resources)
                     /\ Acyclic(selected_resources)) =>
        \A r, d \in DOMAIN selected_resources :
            DependentIn(selected_resources, r, d) =>
                /\ IndexOf(deletion_order, selected_resources[d]) > 0
                /\ IndexOf(deletion_order, selected_resources[d]) <
                       IndexOf(deletion_order, selected_resources[r])

\* C1 witness: a returned order for a chain of three selected records
C1_Witness ==
    /\ pc = "returned"
    /\ UniqueIdentifiers(selected_resources)
    /\ Acyclic(selected_resources)
    /\ \E r, d, e \in DOMAIN selected_resources :
          /\ DependentIn(selected_resources, r, d)
          /\ DependentIn(selected_resources, d, e)
          /\ r < d /\ d < e
          /\ deletion_order = <<selected_resources[e], selected_resources[d],
                                selected_resources[r]>>

\* C2: every call of get_deletion_order ends by returning a permutation of
\* its selection (the empty sequence for the empty selection).
C2_ReturnsPermutation ==
    pc \in {"returned", "raised"} =>
        /\ pc = "returned"
        /\ IsPermutation(deletion_order, selected_resources)

\* C3: after _build_dependency_map, for every pair of records A and B of
\* the catalog, A's id is in B.dependencies exactly when B's id is in
\* A.dependents.
C3_Bidirectional ==
    builds >= 1 =>
        \A a, b \in DOMAIN resources :
            (resources[a].identifier \in Range(resources[b].dependencies))
                <=> (resources[b].identifier \in Range(resources[a].dependents))

\* C4: a second call of _build_dependency_map on the same catalog leaves
\* every record's dependents as the first call left them.
C4_Idempotent ==
    builds >= 2 =>
        /\ Len(resources) = Len(once)
        /\ \A i \in DOMAIN resources :
              resources[i].dependents = once[i].dependents

\* C4 witness: two calls were made on a catalog where a record has two
\* entries in its dependents
C4_Witness ==
    /\ builds = 2
    /\ \E i \in DOMAIN resources : Len(resources[i].dependents) = 2
C6_Deterministic ==
    (pc = "returned" /\ earlier.kept /\ earlier.input = selected_resources)
        => deletion_order = earlier.output

\* C6 witness: a later call on the selection of a kept call has returned,
\* for a selection of two records that needed a forced round
C6_Witness ==
    /\ pc = "returned"
    /\ earlier.kept
    /\ earlier.input = selected_resources
    /\ Len(selected_resources) >= 2
    /\ warnings >= 1

\* C7: no call of get_deletion_order ends in an error.
C7_NeverRaises == pc # "raised"

\* C8: after _build_dependency_map no record's dependents holds the same
\* id twice.
C8_NoDuplicateDependents ==
    builds >= 1 =>
        \A i \in DOMAIN resources :
            \A k, l \in DOMAIN resources[i].dependents :
                resources[i].dependents[k] = resources[i].dependents[l] => k = l
\* C9: in a catalog whose full identifiers are all distinct, records that
\* share a bare identifier included, every record a dependency names has
\* the declaring record among its dependents, and get_deletion_order
\* returns a permutation of the selection without raising.
C9_KeyedByFullIdentifier ==
    (builds >= 1 /\ UniqueFullIdentifiers(resources)) =>
        /\ \A a, b \in DOMAIN resources :
              resources[a].identifier \in Range(resources[b].dependencies)
                  => resources[b].identifier \in Range(resources[a].dependents)
        /\ pc # "raised"
        /\ pc = "returned" => IsPermutation(deletion_order, selected_resources)

\* C10: a dependency id that names no record of the catalog leaves no
\* trace in the result of _build_dependency_map: every record's dependents
\* is what the map of the catalog without that id gives, and there is one
\* dependents entry per declaration that names a record, no more.
C10_DanglingSkipped ==
    builds >= 1 =>
        /\ \A i \in DOMAIN resources :
              resources[i].dependents =
                  BuildDependencyMap(WithoutDangling(resources))[i].dependents
        /\ Cardinality(DependentsEntries(resources)) =
              Cardinality(InCatalogDeclarations(resources))

\* C10 witness: the map was built for a catalog where a record declares
\* an id that names no record and is itself depended upon
C10_Witness ==
    /\ builds >= 1
    /\ \E i \in DOMAIN resources :
          /\ \E k \in DOMAIN resources[i].dependencies :
                resources[i].dependencies[k] \notin Identifiers(resources)
          /\ resources[i].dependents # <<>>

\* C11: in every round the records placed as eligible are exactly the
\* records of remaining none of whose dependents ids is the identifier of
\* a record still in remaining (a forced round places no eligible
\* record); a selection of one record whose dependents are all unselected
\* comes back as that record, placed in the first round without warning.
C11_EligibleRule ==
    /\ last_round.n > 0 =>
          \A i \in DOMAIN last_round.remaining :
              LET r == last_round.remaining[i]
              IN  (~last_round.warned /\ r \in Range(last_round.can_delete))
                     <=> (Range(r.dependents) \cap
                             Identifiers(last_round.remaining) = {})
    /\ (pc = "returned" /\ Len(selected_resources) = 1) =>
          (selected_resources[1].identifier
               \notin Range(selected_resources[1].dependents)
             => /\ deletion_order = selected_resources
                /\ last_round.n = 1
                /\ warnings = 0)

\* C12: the records one round places stand in the output in the relative
\* order they have in the selection, whatever their identifiers; two
\* instances of one VPC, none depending on the other, come out in the
\* order of the selection, followed by the VPC.
C12_StableOrder ==
    /\ last_round.n > 0 =>
          \A i, j \in DOMAIN last_round.can_delete :
              i < j =>
                  /\ IndexOf(selected_resources, last_round.can_delete[i]) > 0
                  /\ IndexOf(selected_resources, last_round.can_delete[i]) <
                         IndexOf(selected_resources, last_round.can_delete[j])
                  /\ IndexOf(deletion_order, last_round.can_delete[i]) <
                         IndexOf(deletion_order, last_round.can_delete[j])
    /\ (/\ pc = "returned"
        /\ Len(selected_resources) = 3
        /\ UniqueIdentifiers(selected_resources)
        /\ selected_resources[1].dependents =
               <<selected_resources[2].identifier,
                 selected_resources[3].identifier>>
        /\ selected_resources[2].dependents = <<>>
        /\ selected_resources[3].dependents = <<>>)
          => deletion_order = <<selected_resources[2], selected_resources[3],
                                selected_resources[1]>>

\* C12 witness: the first round of a call has placed the two instances of
\* a selected VPC, the one selected first ahead of the other
C12_Witness ==
    /\ pc = "loop"
    /\ last_round.n = 1
    /\ Len(selected_resources) = 3
    /\ selected_resources[1].dependents =
           <<selected_resources[2].identifier,
             selected_resources[3].identifier>>
    /\ last_round.can_delete = <<selected_resources[2], selected_resources[3]>>
    /\ deletion_order = last_round.can_delete
    /\ remaining = <<selected_resources[1]>>

\* the round found every record of remaining blocked: each has a
\* dependents id in remaining_ids
NoneEligible(round) ==
    \A i \in DOMAIN round.remaining :
        Range(round.remaining[i].dependents) \cap round.remaining_ids # {}

\* C13: a round that finds no eligible record places exactly one record,
\* the first of remaining, and prints one warning; the selection [A, B]
\* with A and B depending on each other comes back as [A, B] with one
\* warning.
C13_ForcedRound ==
    /\ (last_round.n > 0 /\ NoneEligible(last_round)) =>
          /\ last_round.can_delete = <<last_round.remaining[1]>>
          /\ last_round.warned
          /\ warnings = last_round.warnings + 1
    /\ (/\ pc = "returned"
        /\ Len(selected_resources) = 2
        /\ selected_resources[1].identifier # selected_resources[2].identifier
        /\ selected_resources[1].dependents =
               <<selected_resources[2].identifier>>
        /\ selected_resources[2].dependents =
               <<selected_resources[1].identifier>>)
          => /\ deletion_order = selected_resources
             /\ warnings = 1

\* C13 witness: the second round of a call found the two records left
\* blocking each other and placed the first of them
C13_Witness ==
    /\ last_round.n = 2
    /\ Len(last_round.remaining) = 2
    /\ NoneEligible(last_round)
    /\ last_round.remaining[1].identifier # last_round.remaining[2].identifier
    /\ last_round.can_delete = <<last_round.remaining[1]>>
    /\ remaining = <<last_round.remaining[2]>>
    /\ warnings = 1

\* C19: a round is forced, and the warning printed, only when the
\* dependents relation among the records remaining at its head has a
\* cycle, a record that is its own dependent included; a call on an
\* acyclic selection has no forced round and prints no warning.
C19_ForcedOnlyOnCycle ==
    /\ (last_round.n > 0 /\ last_round.warned) =>
          ~Acyclic(last_round.remaining)
    /\ warnings > 0 => ~Acyclic(selected_resources)
    /\ Acyclic(selected_resources) => ~last_round.warned

\* C19 witness: after a first round that placed a record without warning,
\* the second round was forced on a record that is its own dependent
C19_Witness ==
    /\ last_round.n = 2
    /\ last_round.warnings = 0
    /\ last_round.warned
    /\ Len(last_round.remaining) = 1
    /\ DependentIn(last_round.remaining, 1, 1)

\* C20: at the head of every iteration remaining_ids is exactly the set
\* of identifiers of the records in remaining, and deletion_order
\* followed by remaining holds exactly the records of the selection;
\* every iteration leaves remaining shorter than it found it, so a call
\* runs at most as many rounds as records were selected.
C20_LoopInvariant ==
    /\ pc = "loop" =>
          /\ remaining_ids = Identifiers(remaining)
          /\ IsPermutation(deletion_order \o remaining, selected_resources)
    /\ last_round.n > 0 => Len(remaining) < Len(last_round.remaining)
    /\ last_round.n <= Len(selected_resources)

\* C17: a call of get_deletion_order leaves the caller's list with the
\* records it had on entry, in the same order, and every record of the
\* catalog with the dependencies and dependents it had; the list it
\* returns is a list object of its own, not the caller's.
C17_OnlyReadsInput ==
    pc # "idle" =>
        /\ selected_resources = entry
        /\ resources = once
        /\ pc = "returned" =>
              /\ objects.returned # InputList
              /\ objects.returned = NewList
              /\ objects.remaining # InputList

\* C17 witness: a call of at least two rounds has returned the records of
\* its selection in another order than the caller's list has them
C17_Witness ==
    /\ pc = "returned"
    /\ last_round.n >= 2
    /\ deletion_order # selected_resources
    /\ selected_resources = entry
    /\ objects.returned = NewList

\* the records whose failure the terminal shows
FailedShown(scr) ==
    IF scr.result = "Failed to delete" THEN {scr.deleting} ELSE {}

\* the records of the batch whose delete call failed
FailedRecords ==
    {full_identifier(attempts[k]) :
        k \in {l \in DOMAIN outcomes : outcomes[l].success # "True"}}

\* C14: a confirmed batch calls get_deletion_order once; the callback is
\* called for the records of the returned list, one call per record in
\* the order of the list and none before the list is returned; at most
\* one call is running at any time; the batch is complete when every
\* record has had its call.
C14_OnceInOrderNoOverlap ==
    batch_pc \in {"ordering", "progress", "done"} =>
        /\ order_calls = 1
        /\ batch_pc = "ordering" => attempts = <<>>
        /\ Len(attempts) <= Len(deletion_order)
        /\ \A k \in DOMAIN attempts : attempts[k] = deletion_order[k]
        /\ Len(attempts) - Len(outcomes) \in {0, 1}
        /\ batch_pc = "done" =>
              /\ attempts = deletion_order
              /\ Len(outcomes) = Len(attempts)

\* C14 witness: a batch of two records is complete, both deleted, in
\* another order than they were selected
C14_Witness ==
    /\ batch_pc = "done"
    /\ Len(attempts) = 2
    /\ attempts = deletion_order
    /\ deletion_order # selected_resources
    /\ \A k \in DOMAIN outcomes : outcomes[k].success = "True"

\* C15: a delete call that fails, by a False result or by an exception in
\* the callback, leaves the batch running: the returned list stays as it
\* is, the callback is still called for every later record in the order
\* of the list, and a batch whose order was returned ends only when all
\* its records have had their call.
C15_FailureKeepsOrder ==
    (pc = "returned" /\ batch_pc \in {"progress", "done", "exited"}) =>
        /\ IsPermutation(deletion_order, entry)
        /\ \A k \in DOMAIN outcomes :
              /\ outcomes[k].success \in {"True", "False"}
              /\ outcomes[k].success = "True" <=> outcomes[k].result = "True"
        /\ Len(attempts) <= Len(deletion_order)
        /\ \A k \in DOMAIN attempts : attempts[k] = deletion_order[k]
        /\ \/ batch_pc = "progress"
           \/ /\ batch_pc = "done"
              /\ attempts = deletion_order
              /\ Len(outcomes) = Len(deletion_order)

\* C15 witness: in a complete batch of two records the first delete
\* raised in the callback and the second record was deleted
C15_Witness ==
    /\ batch_pc = "done"
    /\ Len(outcomes) = 2
    /\ outcomes[1].result = "Exception"
    /\ outcomes[1].success = "False"
    /\ outcomes[2].success = "True"
    /\ attempts = deletion_order

\* C16: when a batch is complete the terminal shows the records whose
\* delete call failed during the batch.
C16_ReportsFailures ==
    batch_pc = "done" => FailedShown(screen) = FailedRecords

\* C18: after every discovery pass the catalog of the session is
\* consistent in both directions, its map is built, and its dependents
\* entries come from the records the last pass collected, none from the
\* records of an earlier pass.
C18_FreshConsistency ==
    builds >= 1 =>
        /\ \A a, b \in DOMAIN resources :
              (resources[a].identifier \in Range(resources[b].dependencies))
                  <=> (resources[b].identifier \in Range(resources[a].dependents))
        /\ resources = BuildDependencyMap(resources)
        /\ DependentsEntries(resources) # {} => ~stale

\* C21: a call of _build_dependency_map changes nothing but dependents: the
\* list holds the same records in the same order, and every field of every
\* record other than dependents (service, resource_type, identifier, name,
\* region, dependencies, metadata, state) is what it was before the call.
C21_OnlyDependentsChange ==
    [][/\ Len(resources') = Len(resources)
       /\ \A i \in DOMAIN resources :
             [resources'[i] EXCEPT !.dependents = <<>>]
                 = [resources[i] EXCEPT !.dependents = <<>>]]_vars

\* a call has rewritten the dependents of a catalog that declares
\* dependencies
C21_Witness ==
    /\ builds >= 1
    /\ \E i \in DOMAIN resources : resources[i].dependents # <<>>
    /\ \E i \in DOMAIN resources : resources[i].dependencies # <<>>
    /\ resources # account

\* C22: the warning of a round that found no eligible record names the
\* stuck set: the identifiers of the records that were remaining, all of
\* them blocked, when the round started.
C22_WarningNamesStuckSet ==
    last_round.warned => last_round.named = Identifiers(last_round.remaining)

\* C23: every call of get_deletion_order on a selection whose dependents
\* relation is acyclic returns the sequence Kahn's algorithm, run layer by
\* layer with counters of pending dependents, produces for it.
C23_SameAsKahn ==
    (pc \in {"returned", "raised"} /\ Acyclic(selected_resources)) =>
        /\ pc = "returned"
        /\ deletion_order = Kahn(selected_resources)

\* C24: for cyclic selections as well, every record placed as eligible has
\* all its selected dependents at strictly earlier indices of the order; no
\* two records placed in the same round are dependent and dependency of
\* each other; and a record stands before one of its dependents only if a
\* forced round placed it.
C24_OnlyForcedBeforeDependents ==
    /\ \A i \in DOMAIN deletion_order :
          deletion_order[i] \notin forced =>
              \A d \in DOMAIN selected_resources :
                  selected_resources[d].identifier
                          \in Range(deletion_order[i].dependents) =>
                      /\ IndexOf(deletion_order, selected_resources[d]) > 0
                      /\ IndexOf(deletion_order, selected_resources[d]) < i
    /\ last_round.n > 0 =>
          \A a, b \in Range(last_round.can_delete) :
              a # b => b.identifier \notin Range(a.dependents)
    /\ \A i, j \in DOMAIN deletion_order :
          (i < j /\ deletion_order[j].identifier
                        \in Range(deletion_order[i].dependents)) =>
              deletion_order[i] \in forced

\* C26: for every selection with unique identifiers, cyclic ones included,
\* get_deletion_order returns, and returns the sequence the loop of the
\* legacy delete_resources computes for the same selection.
C26_SameAsLegacy ==
    (pc \in {"returned", "raised"}
        /\ UniqueIdentifiers(selected_resources)) =>
            /\ pc = "returned"
            /\ deletion_order = LegacyDeletionOrder(selected_resources)

\* C26 witness: a returned order of three records with unique identifiers,
\* one of them placed by a forced round after an eligible one
C26_Witness ==
    /\ pc = "returned"
    /\ UniqueIdentifiers(selected_resources)
    /\ Len(selected_resources) = 3
    /\ forced # {}
    /\ deletion_order[1] \notin forced
    /\ deletion_order # selected_resources
    /\ deletion_order = LegacyDeletionOrder(selected_resources)

\* C25: after every call of discover_all_resources(session), the calls
\* made with no enabled service and the calls in which a service raises
\* included, session.resources is the list the call returned.
C25_SessionHoldsReturned ==
    last_pass.returned => resources = last_pass.all_resources

\* C27: whatever toggles and discovery passes came before,
\* get_selected_resources returns exactly the records of the catalog whose
\* identifier is in the session's selected set, in catalog order and each
\* once; selected identifiers that name no record of the current catalog
\* contribute nothing; and the list get_deletion_order was entered with is
\* a sub-sequence of the current catalog.
C27_SelectionOfCatalog ==
    LET selected == get_selected_resources(resources, selected_ids)
    IN  /\ Range(selected) =
              {resources[i] : i \in {j \in DOMAIN resources :
                                  resources[j].identifier \in selected_ids}}
        /\ InOrderOf(selected, resources)
        /\ selected = get_selected_resources(
                         resources, selected_ids \cap Identifiers(resources))
        /\ pc = "loop" => InOrderOf(entry, resources)

\* C27 witness: after a pass that shrank the catalog the selected set still
\* holds an identifier that names no record, and get_deletion_order runs
\* on the records the other selected identifiers name
C27_Witness ==
    /\ pc = "loop"
    /\ entry # <<>>
    /\ Len(resources) < Len(account)
    /\ \E id \in selected_ids : id \notin Identifiers(resources)
    /\ entry = get_selected_resources(resources, selected_ids)

\* C28: the step that ends a confirmed batch leaves the session's selected
\* set empty, whatever the deletions returned, and no step of the batch
\* changes the catalog; a cancelled confirmation and every step of a dry
\* run leave the selected set and the catalog as they were.
C28_BatchClearsSelectionOnly ==
    [][/\ (batch_pc = "progress" /\ batch_pc' = "done") =>
              selected_ids' = {}
       /\ (batch_pc \in {"ordering", "progress"} \/ batch_pc' = "ordering") =>
              resources' = resources
       /\ (batch_pc' = "cancelled" \/ batch_pc = "dry_run"
              \/ batch_pc' = "dry_run") =>
              (selected_ids' = selected_ids /\ resources' = resources)]_vars

\* C28 witness: a batch on both records of a catalog is complete, one
\* deletion failed and one succeeded, the selected set is empty and the
\* catalog is the one the pass left
C28_Witness ==
    /\ batch_pc = "done"
    /\ Len(resources) = 2
    /\ Len(outcomes) = 2
    /\ outcomes[1].success = "False"
    /\ outcomes[2].success = "True"
    /\ selected_ids = {}
    /\ resources = once

====
